---- MODULE Spec2Model ----
(***************************************************************************)
(* gonut: a pull demuxer for the NUT container format.                     *)
(*                                                                         *)
(* The model is byte exact.  A session is a Demuxer over a finite byte     *)
(* source; one action, ReadEvent, is one call of Demuxer.ReadEvent and     *)
(* runs the whole handler: the once-only file header, the packet loop,     *)
(* the packet decoders (each behind bufio.NewReader(io.LimitReader(...)))  *)
(* and the frame decoder.                                                  *)
(*                                                                         *)
(* Values of Go's uint64/int64 are TLA+ integers; the inputs keep them far *)
(* below 2^31.  The one value of the code that does not fit, the int64     *)
(* 1 - 2^62, lives in the matchTimeDelta fields, which are therefore pairs *)
(* <<k, v>> standing for k * 2^62 + v.  A uint64 that has wrapped below    *)
(* zero is kept as the negative integer n standing for 2^64 + n.           *)
(***************************************************************************)
EXTENDS Integers, Sequences, FiniteSets, TLC

VARIABLES
    units,          \* the byte source, as the names of the units it is made of
    chunk,          \* the most bytes one Read call of the source delivers
    pos,            \* bytes of the source consumed through d.r so far
    once,           \* d.readHeaderOnce has run
    err,            \* d.err ("" is nil)
    mainHeader,     \* d.mainHeader: <<>> is nil, <<h>> a stored header
    result,         \* what the last ReadEvent call did (its return, and a record of the call)
    events,         \* history: the events returned so far, in order
    packets,        \* history: the marker-led packets handed to a packet decoder
    stores,         \* history: how many times d.mainHeader was assigned
    errCalls,       \* history: calls made after a call had returned an error
    dataCalls,      \* history: the Data calls made on the frames returned, in order
    input,          \* the bytes of the source: those of the units, or (units is <<>>)
                    \* the bytes a decoder called on its own reads
    decoded         \* the decoder called on its own, the size of the main-header
                    \* packet that starts its input, and what it returned

vars ==
    <<units, chunk, pos, once, err, mainHeader, result, events, packets, stores, errCalls,
      dataCalls, input, decoded>>

----------------------------------------------------------------------------
(* Bounds of the model. *)

\* units that follow the file id in a source
MaxUnits == 2
\* ReadEvent calls followed after one has returned an error
MaxErrCalls == 2
\* Data calls followed in a session
MaxDataCalls == 3
\* units of frames that follow the main header in a session whose Data calls are
\* followed
MaxFrameUnits == 1
\* entries of a side-data block decoded on its own
MaxSideEntries == 2
\* stream headers that follow the file id in a session of stream headers
MaxStreamUnits == 2
\* bytes 0x80 that lead a varint read on its own
MaxLead == 9
\* bytes that follow them
MaxTail == 3
\* frame-table records in a main header read on its own
MaxRecords == 2
\* bytes that follow the flags of a frame read on its own
MaxFrameBody == 48

----------------------------------------------------------------------------
(* Constants of the program. *)

Nil == ""
EOF == "EOF"
ErrUnexpectedEOF == "unexpected EOF"
ErrOverflow == "varint overflows uint64"
ErrSecondMain == "Second Main header detected"
ErrUnknownStartCode == "Unknown start code"
ErrFileID == "Error reading file id"

fileID == <<110, 117, 116, 47, 109, 117, 108, 116, 105, 109, 101, 100, 105, 97,
            32, 99, 111, 110, 116, 97, 105, 110, 101, 114, 0>>

mainStartCode      == <<78, 77, 122, 86, 31, 95, 4, 173>>
streamStartCode    == <<78, 83, 17, 64, 91, 242, 249, 219>>
syncpointStartCode == <<78, 75, 228, 173, 238, 202, 69, 105>>
indexStartCode     == <<78, 88, 221, 103, 47, 35, 230, 78>>
infoStartCode      == <<78, 73, 171, 104, 181, 150, 186, 120>>

flagKey       == 1
flagEOR       == 2
flagCodedPts  == 8
flagStreamID  == 16
flagSizeMSB   == 32
flagChecksum  == 64
flagReserved  == 128
flagHeaderIdx == 1024
flagMatchTime == 2048
flagCoded     == 4096
flagInvalid   == 8192

\* the marker byte 'N'
Marker == 78
\* a packet larger than this carries a 4-byte checksum after its size
ChecksumThreshold == 4096
\* bufio.NewReader's buffer
BufSize == 4096
\* readUvarint reads at most this many bytes
MaxVarintBytes == 9
\* the frame table's length
TableSize == 256

VideoClass == 0
AudioClass == 1

\* 2^24: no build can make a slice of 2^48 bytes (the runtime's largest allocation
\* is below that), and a product of two factors of at least 2^24 is at least 2^48
AllocFactor == 16777216
\* 2^20: a slice of more than 2^20 * 2^24 entries of 16 bytes is more than 2^48 bytes
AllocEntriesHigh == 1048576

Min(a, b) == IF a < b THEN a ELSE b

\* int64 values of the matchTimeDelta fields: <<k, v>> is k * 2^62 + v
I64(v) == <<0, v>>
matchUnset == <<-1, 1>>

----------------------------------------------------------------------------
(* The byte source. *)

\* A main header: version 3, 1 stream, max distance 0, 1 time base 1/10; a frame
\* table of two records: slot 0 with flags = coded pts and size 0, and slots
\* 1..255 with flags 0 and sizes 2, 3, ...; no elision headers; flags 0.
MainPayload == <<3, 1, 0, 1, 1, 10,
                 8, 6, 0, 1, 0, 0, 0, 1,
                 0, 6, 0, 1, 0, 2, 0, 129, 126,
                 0, 0>>
\* A main header that ends inside the frame table after a record set the size
\* multiplier to 0.
MainMulZeroPayload == <<3, 0, 0, 0, 0, 2, 0, 0>>
\* A main header of version 3 whose table is: slot 0 with flags = size msb, size
\* multiplier 2^24 and size 0; slots 1..255 as in MainPayload.
WidePayload == <<3, 0, 0, 0,
                 32, 6, 0, 136, 128, 128, 0, 0, 0, 0, 1,
                 0, 6, 0, 1, 0, 2, 0, 129, 126,
                 0, 0>>
\* A video stream header: stream 0, class 0, fourcc "RG", 100 x 100.
VideoPayload == <<0, 0, 2, 82, 71, 0, 0, 0, 0, 0, 0, 100, 100, 0, 0, 0>>
\* A stream header whose class is encoded as the bytes cb: stream 7, fourcc "RG",
\* five one-byte fields, no codec-specific data, then five more one-byte fields.
StreamPayload(cb) ==
    <<7>> \o cb \o <<2, 82, 71, 0, 0, 0, 0, 0, 0>> \o <<100, 101, 102, 103, 104>>
\* An info packet: one side-data entry "a" = UTF8 "x".
InfoPayload == <<0, 0, 0, 0, 1, 1, 97, 2, 1, 120>>
\* An index packet's payload; the decoder does not parse it.
IndexPayload == <<1, 170, 187>>
\* the 4 checksum bytes that end a packet of the format; no decoder reads them
Trailer == <<222, 173, 190, 239>>
\* a sync point of 4097 bytes: two fields and padding
BigSyncPayload == <<5, 0>> \o [i \in 1..4095 |-> Marker]

\* a packet of fewer than 128 payload bytes: start code, size in one byte, payload
Packet(code, payload) ==
    code \o <<Len(payload)>> \o payload

\* the 4097-byte packet: start code, size 4097 in two bytes, checksum, payload
BigSyncPacket == syncpointStartCode \o <<160, 1>> \o Trailer \o BigSyncPayload

UnitNames ==
    {"main", "mainT", "mainEmpty", "mainMulZero", "video", "info", "syncBig", "index",
     "frame1", "frame0over", "unknownCut"}

\* stream headers of the encoded classes 0, 1, 2, 3, 255, 256, 257 and 512, and
\* one of class 0 that ends after its second video field
StreamUnitNames ==
    {"class0", "class1", "class2", "class3", "class255", "class256", "class257",
     "class512", "class0cut"}

\* the unsigned varint of a stream unit's class
ClassBytes(u) ==
    CASE u = "class0"   -> <<0>>
      [] u = "class1"   -> <<1>>
      [] u = "class2"   -> <<2>>
      [] u = "class3"   -> <<3>>
      [] u = "class255" -> <<129, 127>>
      [] u = "class256" -> <<130, 0>>
      [] u = "class257" -> <<130, 1>>
      [] u = "class512" -> <<132, 0>>

\* the units that are frames; one of them holds two frames, one lacks its last byte,
\* one has a varint of 2^24 after its code
FrameUnitNames == {"frame1", "frame1frame2", "frame1cut", "frame0over", "frame0wide"}

UnitBytes(u) ==
    CASE u = "fileID"      -> fileID
      [] u = "shortID"     -> SubSeq(fileID, 1, 3)
      [] u = "main"        -> Packet(mainStartCode, MainPayload)
      [] u = "mainT"       -> Packet(mainStartCode, MainPayload \o Trailer)
      [] u = "mainEmpty"   -> Packet(mainStartCode, <<>>)
      [] u = "mainMulZero" -> Packet(mainStartCode, MainMulZeroPayload)
      [] u = "video"       -> Packet(streamStartCode, VideoPayload)
      [] u = "info"        -> Packet(infoStartCode, InfoPayload)
      [] u = "syncBig"     -> BigSyncPacket
      [] u = "index"       -> Packet(indexStartCode, IndexPayload)
      [] u = "frame1"      -> <<1, 170, 187>>
      [] u = "mainWide"    -> Packet(mainStartCode, WidePayload)
      [] u = "frame1frame2" -> <<1, 170, 187, 2, 204, 221, 238>>
      [] u = "frame1cut"   -> <<1, 170>>
      [] u = "frame0wide"  -> <<0, 136, 128, 128, 0>>
      [] u = "frame0over"  -> <<0, 128, 128, 128, 128, 128, 128, 128, 128, 128>>
      [] u = "unknownCut"  -> <<78, 90, 1, 2, 3, 4, 5, 6>>
      [] u = "class0cut"   -> Packet(streamStartCode, SubSeq(StreamPayload(<<0>>), 1, 13))
      [] u \in StreamUnitNames ->
             Packet(streamStartCode, StreamPayload(ClassBytes(u)))

RECURSIVE Stream(_)
Stream(us) ==
    IF us = <<>> THEN <<>> ELSE UnitBytes(Head(us)) \o Stream(Tail(us))

\* the bytes of the source
Src == input

----------------------------------------------------------------------------
(* Readers.  A reader is [pos, N, b, err, buffered]:                        *)
(*   pos       bytes of the source consumed through d.r                    *)
(*   buffered  FALSE for d.r itself, TRUE for a rawPacket's                 *)
(*             bufio.NewReader(io.LimitReader(d.r, size))                  *)
(*   N         the LimitReader's remaining allowance                       *)
(*   b         bytes bufio holds and has not handed out: they are the last *)
(*             b bytes consumed from d.r                                   *)
(*   err       the sticky error of the owner (d.err or p.err)              *)
(*   starved   history: a Read found the LimitReader's allowance used up   *)

\* the source's Read(p) with len(p) = want: how many bytes it delivers
SourceRead(want, at) == Min(want, Min(chunk, Len(Src) - at))

\* a LimitReader that forgets its allowance
LimitedReadUnbounded(want, R) == SourceRead(want, R.pos)

\* io.LimitReader's Read: never more than the allowance
LimitedRead(want, R) == SourceRead(Min(want, R.N), R.pos)

\* the next byte a reader hands out, when it holds or can get one
NextByte(R) == Src[R.pos - R.b + 1]

\* io.ReadFull(r, buf) with len(buf) = n on a reader; got counts the bytes so far.
\* On d.r the result does not depend on how the source chunks its reads. On a
\* bufio.Reader each Read either copies from the buffer, or (buffer empty) does
\* one Read of the LimitReader: into the caller's slice when that is at least the
\* buffer's size, else into the buffer.
RECURSIVE ReadFullFrom(_, _, _)
ReadFullFrom(R, n, got) ==
    IF got >= n THEN [r |-> R, n |-> got, err |-> Nil]
    ELSE IF ~R.buffered THEN
        LET have == Len(Src) - R.pos
            k == Min(n, have)
        IN  [r |-> [R EXCEPT !.pos = @ + k], n |-> k,
             err |-> IF k = n THEN Nil ELSE IF k = 0 THEN EOF ELSE ErrUnexpectedEOF]
    ELSE IF R.b > 0 THEN
        LET k == Min(n - got, R.b)
        IN  ReadFullFrom([R EXCEPT !.b = @ - k], n, got + k)
    ELSE
        LET direct == (n - got) >= BufSize
            m == LimitedRead(IF direct THEN n - got ELSE BufSize, R)
        IN  IF m = 0
            THEN [r |-> [R EXCEPT !.starved = @ \/ (R.N = 0)], n |-> got,
                  err |-> IF got = 0 THEN EOF ELSE ErrUnexpectedEOF]
            ELSE ReadFullFrom([R EXCEPT !.pos = @ + m, !.N = @ - m,
                                        !.b = IF direct THEN 0 ELSE m],
                              n, IF direct THEN got + m ELSE got)

ReadFull(R, n) == ReadFullFrom(R, n, 0)

\* the bytes a successful ReadFull(R, n) hands out
Taken(R, n) == SubSeq(Src, R.pos - R.b + 1, R.pos - R.b + n)

\* readUvarint's loop from iteration i with accumulator x, and the rest of an
\* iteration once its byte has been asked for: rd is the ReadFull of the byte
RECURSIVE uvarintLoop(_, _, _)
RECURSIVE uvarintByte(_, _, _, _)
uvarintLoop(R, x, i) ==
    IF i >= MaxVarintBytes THEN [r |-> R, x |-> x, err |-> ErrOverflow]
    ELSE uvarintByte(ReadFull(R, 1), NextByte(R), x, i)

\* an iteration that does not mask the byte's high bit
uvarintByteUnmasked(rd, byte, x, i) ==
    IF rd.err # Nil THEN [r |-> rd.r, x |-> x, err |-> rd.err]
    ELSE IF byte < 128 THEN [r |-> rd.r, x |-> x * 128 + byte, err |-> Nil]
    ELSE uvarintLoop(rd.r, x * 128 + byte, i + 1)

uvarintByte(rd, byte, x, i) ==
    IF rd.err # Nil THEN [r |-> rd.r, x |-> x, err |-> rd.err]
    ELSE IF byte < 128 THEN [r |-> rd.r, x |-> x * 128 + (byte % 128), err |-> Nil]
    ELSE uvarintLoop(rd.r, x * 128 + (byte % 128), i + 1)

readUvarint(R) == uvarintLoop(R, 0, 0)

\* readVarint's arithmetic on the unsigned value u = [r, x, err] it has read
\* a readVarint without its "u++"
signedOfNoIncrement(u) ==
    IF u.err # Nil THEN [r |-> u.r, x |-> 0, err |-> u.err]
    ELSE [r |-> u.r,
          x |-> IF u.x % 2 # 0 THEN -(u.x \div 2) ELSE u.x \div 2,
          err |-> Nil]

signedOf(u) ==
    IF u.err # Nil THEN [r |-> u.r, x |-> 0, err |-> u.err]
    ELSE [r |-> u.r,
          x |-> IF (u.x + 1) % 2 # 0 THEN -((u.x + 1) \div 2) ELSE (u.x + 1) \div 2,
          err |-> Nil]

readVarint(R) == signedOf(readUvarint(R))

\* "x, err := readUvarint(p.r); if err != nil { p.err = err }; return x": the
\* owner's error takes the read's error, and the bits read so far are returned
owned(u) == [r |-> [u.r EXCEPT !.err = u.err], v |-> u.x]

\* (p *rawPacket) readUvarint and (d *Demuxer) readUvarint: the owner's error is
\* sticky
ownerReadUvarint(R) ==
    IF R.err # Nil THEN [r |-> R, v |-> 0] ELSE owned(readUvarint(R))

\* (p *rawPacket) readVarint and (d *Demuxer) readVarint
ownerReadVarint(R) ==
    IF R.err # Nil THEN [r |-> R, v |-> 0] ELSE owned(readVarint(R))

\* readVarBytes once the count u and the ReadFull rd of the bytes are done: a
\* failed count does not stop the read of the bytes
varBytesData(u, rd) ==
    [r |-> [rd.r EXCEPT !.err = IF rd.err # Nil THEN rd.err ELSE u.err],
     v |-> Taken(u.r, rd.n) \o [i \in 1..(u.x - rd.n) |-> 0]]

varBytesCount(u) == varBytesData(u, ReadFull(u.r, u.x))

\* (p *rawPacket) readVarBytes
readVarBytes(R) ==
    IF R.err # Nil THEN [r |-> R, v |-> <<>>] ELSE varBytesCount(readUvarint(R))

----------------------------------------------------------------------------
(* Decoders.  A decoder's local variables are a record L whose field r is   *)
(* the reader; a statement "f = p.readX()" is <<f, kind>>, kind "u" for     *)
(* readUvarint, "s" for readVarint, "b" for readVarBytes.                     *)

\* field f of the locals set from a read rd = [r, v]
assign(L, f, rd) == [L EXCEPT !.r = rd.r, ![f] = rd.v]

\* one read statement
readInto(L, f, kind) ==
    assign(L, f, CASE kind = "u" -> ownerReadUvarint(L.r)
                   [] kind = "s" -> ownerReadVarint(L.r)
                   [] kind = "b" -> readVarBytes(L.r))

\* read statements, in order. The test of L.r.pos, which is never negative, has
\* TLC evaluate the locals a statement leaves before it goes on to the next one,
\* and not all statements nested in one another.
RECURSIVE readAll(_, _)
readAll(L, stmts) ==
    IF L.r.pos < 0 \/ stmts = <<>> THEN L
    ELSE readAll(readInto(L, stmts[1][1], stmts[1][2]), Tail(stmts))

\* the first n of the statements, n possibly more than there are or negative
FirstOf(stmts, n) == SubSeq(stmts, 1, IF n < 0 THEN 0 ELSE Min(n, Len(stmts)))

\* a loop of n calls of p.readUvarint() whose results are dropped
RECURSIVE skipUvarints(_, _)
skipUvarints(R, n) ==
    IF n <= 0 \/ R.err # Nil THEN R
    ELSE skipUvarints(ownerReadUvarint(R).r, n - 1)

----------------------------------------------------------------------------
(* The main header. *)

zeroFrameInfo ==
    [flags |-> 0, streams |-> 0, mul |-> 0, lsb |-> 0, ptsDelta |-> 0,
     reservedCount |-> 0, matchTimeDelta |-> I64(0), headerIdx |-> 0, streamID |-> 0]

\* j < count on uint64, count possibly wrapped
LtU64(j, count) == IF count < 0 THEN TRUE ELSE j < count

\* One frame-table record: the reads of one iteration of the outer loop. c holds the
\* variables pts, mul, stream, match, headIdx that live across iterations; the
\* locals start as the iteration finds them.
recordLocals(R, c) ==
    [r |-> R, flags |-> 0, fields |-> 0, pts |-> c.pts, mul |-> c.mul,
     stream |-> c.stream, size |-> 0, res |-> 0, count |-> 0, matchRead |-> 0,
     match |-> c.match, headIdx |-> c.headIdx]

\* flags and fields
recordHead(L) == readAll(L, <<<<"flags", "u">>, <<"fields", "u">>>>)

\* "if fields > 0" to "if fields > 4"
recordFields(L) ==
    readAll(L, FirstOf(<<<<"pts", "s">>, <<"mul", "u">>, <<"stream", "u">>,
                         <<"size", "u">>, <<"res", "u">>>>, L.fields))

\* a run length that defaults to the size multiplier
recordCountMul(L) == [L EXCEPT !.count = L.mul]

\* "count := mul - size"
recordCount(L) == [L EXCEPT !.count = L.mul - L.size]

\* "if fields > 5" to "if fields > 7"
recordRest(L) ==
    readAll(L, FirstOf(<<<<"count", "u">>, <<"matchRead", "s">>, <<"headIdx", "u">>>>,
                       L.fields - 5))

\* match is assigned only when it is read
recordMatch(L) == IF L.fields > 6 THEN [L EXCEPT !.match = I64(L.matchRead)] ELSE L

\* the fields past the eighth are read and dropped
recordSkip(L) == [L EXCEPT !.r = skipUvarints(L.r, L.fields - 8)]

recordResult(L) ==
    [r |-> L.r, flags |-> L.flags, size |-> L.size, res |-> L.res, count |-> L.count,
     c |-> [pts |-> L.pts, mul |-> L.mul, stream |-> L.stream, match |-> L.match,
            headIdx |-> L.headIdx]]

readRecord(R, c) ==
    recordResult(recordSkip(recordMatch(recordRest(recordCount(recordFields(
        recordHead(recordLocals(R, c))))))))

\* a body of the inner loop that leaves out the "+ j" of "lsb = size + j"
runEntryFlat(old, rec, j) ==
    [flags |-> rec.flags, streams |-> old.streams, mul |-> rec.c.mul,
     lsb |-> rec.size, ptsDelta |-> rec.c.pts, reservedCount |-> rec.res,
     matchTimeDelta |-> rec.c.match, headerIdx |-> rec.c.headIdx,
     streamID |-> rec.c.stream]

\* the assignments of the inner loop's body to h.Frames[i], j slots of the run
\* done; the field streams is not assigned
runEntry(old, rec, j) ==
    [flags |-> rec.flags, streams |-> old.streams, mul |-> rec.c.mul,
     lsb |-> rec.size + j, ptsDelta |-> rec.c.pts, reservedCount |-> rec.res,
     matchTimeDelta |-> rec.c.match, headerIdx |-> rec.c.headIdx,
     streamID |-> rec.c.stream]

\* an inner loop without its "if i == 0x4E"
fillStepNoMarker(S, rec) ==
    IF S.done \/ S.fault # Nil THEN S
    ELSE IF ~LtU64(S.j, rec.count) THEN [S EXCEPT !.done = TRUE]
    ELSE IF S.i >= TableSize THEN [S EXCEPT !.fault = "index out of range"]
    ELSE [frames |-> [S.frames EXCEPT ![S.i] = runEntry(@, rec, S.j)],
          i |-> S.i + 1, j |-> S.j + 1, fault |-> Nil, done |-> FALSE]

\* One iteration of the inner loop "for j := 0; j < count; j, i = j+1, i+1" of the
\* frame table. S is [frames, i, j, fault, done]; done: the loop's condition failed.
fillStep(S, rec) ==
    IF S.done \/ S.fault # Nil THEN S
    ELSE IF ~LtU64(S.j, rec.count) THEN [S EXCEPT !.done = TRUE]
    ELSE IF S.i = Marker
         THEN [frames |-> [S.frames EXCEPT ![S.i].flags = flagInvalid],
               i |-> S.i + 1, j |-> S.j, fault |-> Nil, done |-> FALSE]
    ELSE IF S.i >= TableSize THEN [S EXCEPT !.fault = "index out of range"]
    ELSE [frames |-> [S.frames EXCEPT ![S.i] = runEntry(@, rec, S.j)],
          i |-> S.i + 1, j |-> S.j + 1, fault |-> Nil, done |-> FALSE]

\* n iterations of the inner loop, by halves
RECURSIVE fillSteps(_, _, _)
fillSteps(S, rec, n) ==
    CASE S.done -> S
      [] S.fault # Nil -> S
      [] n <= 0 -> S
      [] n = 1 -> fillStep(S, rec)
      [] OTHER -> fillSteps(fillSteps(S, rec, n \div 2), rec, n - (n \div 2))

\* the inner loop, from slot i: every iteration but the last moves i up by one, and
\* j too unless i is at the marker; the loop ends at j = count and faults at
\* i = TableSize, so count + 2 iterations end it, and so do TableSize + 2
fillRun(frames, i, rec) ==
    fillSteps([frames |-> frames, i |-> i, j |-> 0, fault |-> Nil, done |-> FALSE],
              rec, IF LtU64(TableSize, rec.count) THEN TableSize + 2 ELSE rec.count + 2)

\* The end of an iteration of the outer loop, its record rec read and its run of
\* slots filled. An iteration that leaves every variable of the loop as it found
\* it is followed by the same iteration for ever; one that leaves i has written
\* no slot.
afterRun(T, rec, run) ==
    IF /\ rec.r = T.r
       /\ rec.c = T.c
       /\ run.i = T.i
       /\ run.fault = Nil
    THEN [T EXCEPT !.fault = "never returns"]
    ELSE IF run.fault # Nil
    THEN [T EXCEPT !.r = rec.r, !.i = run.i, !.c = rec.c, !.fault = run.fault]
    ELSE [T EXCEPT !.r = rec.r, !.i = run.i, !.c = rec.c, !.frames = run.frames]

\* history: the record read at slot T.i, and the bytes of the packet it took
runOf(T, rec) ==
    [start |-> T.i, from |-> T.r.pos - T.r.b, to |-> rec.r.pos - rec.r.b,
     flags |-> rec.flags, size |-> rec.size, res |-> rec.res, count |-> rec.count,
     c |-> rec.c]

afterRecord(T, rec) ==
    afterRun([T EXCEPT !.runs = Append(@, runOf(T, rec))], rec,
             fillRun(T.frames, T.i, rec))

\* One iteration of the outer loop "for i := 0; i < 256;". T is
\* [r, i, c, frames, fault, done, runs]; runs is the history of the records read.
tableStep(T) ==
    IF T.done \/ T.fault # Nil THEN T
    ELSE IF T.i >= TableSize THEN [T EXCEPT !.done = TRUE]
    ELSE afterRecord(T, readRecord(T.r, T.c))

\* n iterations of the outer loop, by halves
RECURSIVE tableSteps(_, _)
tableSteps(T, n) ==
    CASE T.done -> T
      [] T.fault # Nil -> T
      [] n <= 0 -> T
      [] n = 1 -> tableStep(T)
      [] OTHER -> tableSteps(tableSteps(T, n \div 2), n - (n \div 2))

\* the iterations of the outer loop until it ends, n of them, then 4n, then 16n, ...
RECURSIVE tableBlocks(_, _)
tableBlocks(T, n) ==
    CASE T.done -> T
      [] T.fault # Nil -> T
      [] OTHER -> tableBlocks(tableSteps(T, n), 4 * n)

\* the outer loop. An iteration moves i up, or reads a byte, or sets p.err, or
\* repeats for ever, so it ends within TableSize plus the bytes the packet can read
\* plus 3 iterations.
tableLoop(R, c, frames) ==
    tableBlocks([r |-> R, i |-> 0, c |-> c, frames |-> frames, fault |-> Nil,
                 done |-> FALSE, runs |-> <<>>], 1)

\* the elision headers: n calls of p.readVarBytes() whose results are dropped
RECURSIVE skipVarBytes(_, _)
skipVarBytes(R, n) ==
    IF n <= 0 \/ R.err # Nil THEN R
    ELSE skipVarBytes(readVarBytes(R).r, n - 1)

\* the locals of readMainHeader: h's fields, and the counts read on the way
mainLocals(R) ==
    [r |-> R, Version |-> 0, MinorVersion |-> 0, StreamCount |-> 0, MaxDistance |-> 0,
     timeBaseCount |-> 0, numerator |-> 0, denominator |-> 0, TimeBases |-> <<>>,
     Frames |-> <<>>, headerCount |-> 0, Flags |-> 0, fault |-> Nil, runs |-> <<>>]

mainVersion(L) == readAll(L, <<<<"Version", "u">>>>)

\* "if h.Version > 3 { h.MinorVersion = ... }", then the counts
mainCounts(L) ==
    readAll(L, (IF L.Version > 3 THEN <<<<"MinorVersion", "u">>>> ELSE <<>>)
               \o <<<<"StreamCount", "u">>, <<"MaxDistance", "u">>,
                    <<"timeBaseCount", "u">>>>)

addTimeBase(L) ==
    [L EXCEPT !.TimeBases =
                  Append(@, [numerator |-> L.numerator, denominator |-> L.denominator])]

\* the time-base loop
RECURSIVE readTimeBases(_)
readTimeBases(L) ==
    IF Len(L.TimeBases) >= L.timeBaseCount THEN L
    ELSE readTimeBases(addTimeBase(
             readAll(L, <<<<"numerator", "u">>, <<"denominator", "u">>>>)))

withTable(L, T) ==
    [L EXCEPT !.r = T.r, !.Frames = T.frames, !.fault = T.fault, !.runs = T.runs]

\* the frame table, from the initial values of pts, mul, stream, match, headIdx
mainTable(L) ==
    withTable(L, tableLoop(L.r,
                           [pts |-> 0, mul |-> 1, stream |-> 0, match |-> matchUnset,
                            headIdx |-> 0],
                           [i \in 0..(TableSize - 1) |-> zeroFrameInfo]))

mainHeaderCount(L) == IF L.fault # Nil THEN L ELSE readAll(L, <<<<"headerCount", "u">>>>)

\* the elision headers are dropped, then h.Flags
mainFlags(L) ==
    IF L.fault # Nil THEN L
    ELSE readAll([L EXCEPT !.r = skipVarBytes(L.r, L.headerCount)], <<<<"Flags", "u">>>>)

\* "return &h, p.err"
mainResult(L) ==
    IF L.fault # Nil
    THEN [r |-> L.r, h |-> <<>>, err |-> L.r.err, fault |-> L.fault, runs |-> L.runs]
    ELSE [r |-> L.r,
          h |-> <<[Version |-> L.Version, MinorVersion |-> L.MinorVersion,
                   StreamCount |-> L.StreamCount, MaxDistance |-> L.MaxDistance,
                   TimeBases |-> L.TimeBases, Frames |-> L.Frames, Flags |-> L.Flags]>>,
          err |-> L.r.err, fault |-> Nil, runs |-> L.runs]

\* (p *rawPacket) readMainHeader: [r, h, err, fault, runs]; h is <<>> for nil
readMainHeader(R) ==
    IF R.err # Nil
    THEN [r |-> R, h |-> <<>>, err |-> R.err, fault |-> Nil, runs |-> <<>>]
    ELSE mainResult(mainFlags(mainHeaderCount(mainTable(readTimeBases(mainCounts(
             mainVersion(mainLocals(R))))))))

----------------------------------------------------------------------------
(* Stream headers, info packets, sync points, the index. *)

streamLocals(R) ==
    [r |-> R, streamID |-> 0, streamClass |-> 0, fourcc |-> <<>>, timeBaseID |-> 0,
     msbPtsShift |-> 0, maxPtsDistance |-> 0, decodeDelay |-> 0, streamFlags |-> 0,
     codecSpecific |-> <<>>, f1 |-> 0, f2 |-> 0, f3 |-> 0, f4 |-> 0, f5 |-> 0]

streamCommon(L) ==
    readAll(L, <<<<"streamID", "u">>, <<"streamClass", "u">>, <<"fourcc", "b">>,
                 <<"timeBaseID", "u">>, <<"msbPtsShift", "u">>,
                 <<"maxPtsDistance", "u">>, <<"decodeDelay", "u">>,
                 <<"streamFlags", "u">>, <<"codecSpecific", "b">>>>)

\* StreamClass(p.readUvarint()): StreamClass is a byte
streamClassByte(L) == [L EXCEPT !.streamClass = @ % 256]

\* "switch h.streamClass": five more fields for video, three for audio
streamClassFields(L) ==
    readAll(L, FirstOf(<<<<"f1", "u">>, <<"f2", "u">>, <<"f3", "u">>, <<"f4", "u">>,
                         <<"f5", "u">>>>,
                       IF L.streamClass = VideoClass THEN 5
                       ELSE IF L.streamClass = AudioClass THEN 3 ELSE 0))

streamResult(L) ==
    [r |-> L.r,
     h |-> <<[streamID |-> L.streamID, streamClass |-> L.streamClass,
              fourcc |-> L.fourcc, timeBaseID |-> L.timeBaseID,
              msbPtsShift |-> L.msbPtsShift, maxPtsDistance |-> L.maxPtsDistance,
              decodeDelay |-> L.decodeDelay, streamFlags |-> L.streamFlags,
              codecSpecific |-> L.codecSpecific,
              videoStreamHeader |->
                  IF L.streamClass = VideoClass
                  THEN <<[width |-> L.f1, height |-> L.f2, sampleWidth |-> L.f3,
                          sampleHeight |-> L.f4, colorSpaceType |-> L.f5]>>
                  ELSE <<>>,
              auditStreamHeader |->
                  IF L.streamClass = AudioClass
                  THEN <<[sampleRateNum |-> L.f1, sampleRateDenom |-> L.f2,
                          channelCount |-> L.f3]>>
                  ELSE <<>>]>>,
     err |-> L.r.err]

\* (p *rawPacket) readStreamHeader: [r, h, err]
readStreamHeader(R) ==
    IF R.err # Nil THEN [r |-> R, h |-> <<>>, err |-> R.err]
    ELSE streamResult(streamClassFields(streamClassByte(streamCommon(streamLocals(R)))))

\* one side-data entry; an entry is [kind, name, innerType, value, den, num]
sideEntry(kind, name, innerType, value, den, num) ==
    [kind |-> kind, name |-> name, innerType |-> innerType, value |-> value,
     den |-> den, num |-> num]

\* the locals of readSideData's loop; out is the slice built so far
sideLocals(R, count) ==
    [r |-> R, count |-> count, out |-> <<>>, name |-> <<>>, typeVal |-> 0,
     innerType |-> <<>>, val |-> 0]

sideNameAndType(L) == readAll(L, <<<<"name", "b">>, <<"typeVal", "s">>>>)

\* the reads the entry's type asks for
sideValue(L) ==
    readAll(L, IF L.typeVal = -1 THEN <<<<"val", "b">>>>
               ELSE IF L.typeVal = -2 THEN <<<<"innerType", "b">>, <<"val", "b">>>>
               ELSE IF L.typeVal = -3 THEN <<<<"val", "s">>>>
               ELSE IF L.typeVal = -4 THEN <<<<"val", "u">>>>
               ELSE IF L.typeVal < -4 THEN <<<<"val", "s">>>>
               ELSE <<>>)

\* "out[i] = ..."
sideStore(L) ==
    [L EXCEPT !.out = Append(@,
        IF L.typeVal = -1 THEN sideEntry("sideUTF8", L.name, <<>>, L.val, 0, 0)
        ELSE IF L.typeVal = -2
        THEN sideEntry("sideGeneric", L.name, L.innerType, L.val, 0, 0)
        ELSE IF L.typeVal = -3 THEN sideEntry("sideInt64", L.name, <<>>, L.val, 0, 0)
        ELSE IF L.typeVal = -4 THEN sideEntry("sideTime", L.name, <<>>, L.val, 0, 0)
        ELSE IF L.typeVal < -4
        THEN sideEntry("sideRational", L.name, <<>>, 0, -L.typeVal - 4, L.val)
        ELSE sideEntry("sideUint64", L.name, <<>>, 0, 0, 0))]

\* the loop of readSideData
RECURSIVE sideDataLoop(_)
sideDataLoop(L) ==
    IF Len(L.out) >= L.count THEN [r |-> L.r, v |-> L.out, fault |-> Nil]
    ELSE sideDataLoop(sideStore(sideValue(sideNameAndType(L))))

\* "count := p.readUvarint()" with the uint64 held as hi * 2^24 + lo, for a count
\* that is too large for a slice: readUvarint's loop from iteration i, and the
\* rest of an iteration once its byte has been asked for; the packet's error
\* takes the read's error. c is [r, hi, lo].
RECURSIVE wideLoop(_, _, _, _)
wideByte(rd, byte, hi, lo, i) ==
    IF rd.err # Nil THEN [r |-> [rd.r EXCEPT !.err = rd.err], hi |-> hi, lo |-> lo]
    ELSE IF byte < 128
    THEN [r |-> rd.r, hi |-> hi * 128 + ((lo * 128 + (byte % 128)) \div AllocFactor),
          lo |-> (lo * 128 + (byte % 128)) % AllocFactor]
    ELSE wideLoop(rd.r, hi * 128 + ((lo * 128 + (byte % 128)) \div AllocFactor),
                  (lo * 128 + (byte % 128)) % AllocFactor, i + 1)

wideLoop(R, hi, lo, i) ==
    IF i >= MaxVarintBytes THEN [r |-> [R EXCEPT !.err = ErrOverflow], hi |-> hi, lo |-> lo]
    ELSE wideByte(ReadFull(R, 1), NextByte(R), hi, lo, i)

\* "out := make([]sideData, count)" panics when count entries of 16 bytes are more
\* than the runtime's largest allocation
sideDataCount(c) ==
    IF c.hi > AllocEntriesHigh \/ (c.hi = AllocEntriesHigh /\ c.lo > 0)
    THEN [r |-> c.r, v |-> <<>>, fault |-> "makeslice: len out of range"]
    ELSE sideDataLoop(sideLocals(c.r, c.hi * AllocFactor + c.lo))

\* (p *rawPacket) readSideData: [r, v, fault]
readSideData(R) ==
    IF R.err # Nil THEN [r |-> R, v |-> <<>>, fault |-> Nil]
    ELSE sideDataCount(wideLoop(R, 0, 0, 0))

infoLocals(R) ==
    [r |-> R, streamID |-> 0, chapterID |-> 0, chapterStart |-> 0, chapterLen |-> 0,
     metaData |-> <<>>, fault |-> Nil]

infoFields(L) ==
    readAll(L, <<<<"streamID", "u">>, <<"chapterID", "s">>, <<"chapterStart", "u">>,
                 <<"chapterLen", "u">>>>)

infoSideData(L, rd) == [assign(L, "metaData", rd) EXCEPT !.fault = rd.fault]

infoMetaData(L) == infoSideData(L, readSideData(L.r))

infoResult(L) ==
    [r |-> L.r,
     i |-> <<[streamID |-> L.streamID, chapterID |-> L.chapterID,
              chapterStart |-> L.chapterStart, chapterLen |-> L.chapterLen,
              metaData |-> L.metaData]>>,
     err |-> L.r.err, fault |-> L.fault]

\* (p *rawPacket) readInfoPacket
readInfoPacket(R) ==
    IF R.err # Nil THEN [r |-> R, i |-> <<>>, err |-> R.err, fault |-> Nil]
    ELSE infoResult(infoMetaData(infoFields(infoLocals(R))))

syncResult(L) ==
    [r |-> L.r, s |-> <<[globalKeyPts |-> L.globalKeyPts, backPtrDiv64 |-> L.backPtrDiv64]>>,
     err |-> L.r.err, fault |-> Nil]

\* (p *rawPacket) readSyncPoint
readSyncPoint(R) ==
    IF R.err # Nil THEN [r |-> R, s |-> <<>>, err |-> R.err, fault |-> Nil]
    ELSE syncResult(readAll([r |-> R, globalKeyPts |-> 0, backPtrDiv64 |-> 0],
                            <<<<"globalKeyPts", "u">>, <<"backPtrDiv64", "u">>>>))

\* (d *Demuxer) readIndex: not implemented, reads nothing
readIndex(R) ==
    [r |-> R, x |-> <<[maxPTS |-> 0, syncpointPOSDiv16 |-> <<>>]>>, err |-> Nil,
     fault |-> Nil]

----------------------------------------------------------------------------
(* Frames. *)

\* flags&f > 0, f a single bit
HasFlag(flags, f) == (flags \div f) % 2 = 1

\* a ^ b
RECURSIVE Xor(_, _)
Xor(a, b) ==
    IF a = 0 THEN b
    ELSE IF b = 0 THEN a
    ELSE ((a + b) % 2) + 2 * Xor(a \div 2, b \div 2)

\* the statement that reads a field of the frame header iff its flag is set
gated(flags, f, stmt) == IF HasFlag(flags, f) THEN <<stmt>> ELSE <<>>

\* the locals of readFrame, from the table entry meta of the frame code
frameLocals(R, meta) ==
    [r |-> R, streamID |-> meta.streamID, matchTimeDelta |-> meta.matchTimeDelta,
     headerIdx |-> meta.headerIdx, size |-> meta.lsb, sizeMul |-> meta.mul,
     flags |-> meta.flags, codedFlags |-> 0, codedPTS |-> 0, dataSizeMsb |-> 0,
     matchRead |-> 0, res |-> 0, hdrErr |-> Nil, huge |-> FALSE]

frameCodedFlags(L) == readAll(L, gated(L.flags, flagCoded, <<"codedFlags", "u">>))

\* coded flags that are read and not used
frameFlagsUnchanged(L) == L

\* "flags = flags ^ codedFlags", inside "if flags&flagCoded > 0"
frameFlags(L) ==
    IF HasFlag(L.flags, flagCoded) THEN [L EXCEPT !.flags = Xor(@, L.codedFlags)] ELSE L

\* the fields the flags gate
frameFields(L) ==
    readAll(L, gated(L.flags, flagStreamID, <<"streamID", "u">>)
               \o gated(L.flags, flagCodedPts, <<"codedPTS", "u">>)
               \o gated(L.flags, flagSizeMSB, <<"dataSizeMsb", "u">>)
               \o gated(L.flags, flagMatchTime, <<"matchRead", "s">>)
               \o gated(L.flags, flagHeaderIdx, <<"headerIdx", "u">>)
               \o gated(L.flags, flagReserved, <<"res", "u">>))

\* sizeMul*f.dataSizeMsb is 2^48 or more (and, for factors below 2^32, less than
\* 2^64)
hugeSize(L) ==
    HasFlag(L.flags, flagSizeMSB) /\ L.sizeMul >= AllocFactor /\ L.dataSizeMsb >= AllocFactor

\* "size = size + sizeMul*f.dataSizeMsb" and "f.matchTimeDelta = d.readVarint()";
\* a size of 2^48 or more is not computed, huge stands for it
frameSize(L) ==
    [L EXCEPT !.size = IF HasFlag(L.flags, flagSizeMSB) /\ ~hugeSize(L)
                       THEN @ + L.sizeMul * L.dataSizeMsb ELSE @,
              !.huge = hugeSize(L),
              !.matchTimeDelta = IF HasFlag(L.flags, flagMatchTime)
                                 THEN I64(L.matchRead) ELSE @]

\* "for i := uint64(0); i < f.res; i++ { d.readUvarint() }"
frameReserved(L) == [L EXCEPT !.r = skipUvarints(L.r, L.res)]

\* d.err as the reads of the header fields left it
frameHeaderErr(L) == [L EXCEPT !.hdrErr = L.r.err]

\* the frame's data read: "return &f, nil", or the read's error
frameResult(L, data, from) ==
    IF data.err # Nil
    THEN [r |-> [data.r EXCEPT !.err = data.err], f |-> <<>>, err |-> data.err,
          fault |-> Nil, hdrErr |-> L.hdrErr, dataAt |-> from.pos, size |-> L.size]
    ELSE [r |-> data.r,
          f |-> <<[streamID |-> L.streamID, codedPTS |-> L.codedPTS,
                   dataSizeMsb |-> L.dataSizeMsb, matchTimeDelta |-> L.matchTimeDelta,
                   headerIdx |-> L.headerIdx, res |-> L.res,
                   data |-> Taken(from, L.size), dataAccessed |-> FALSE]>>,
          err |-> Nil, fault |-> Nil, hdrErr |-> L.hdrErr, dataAt |-> from.pos,
          size |-> L.size]

\* "f.data = make([]byte, size); io.ReadFull(d.r, f.data)" on the reader R: make
\* panics when the length is more than can be allocated
frameData(L, R) ==
    IF L.huge
    THEN [r |-> R, f |-> <<>>, err |-> Nil, fault |-> "makeslice: len out of range",
          hdrErr |-> L.hdrErr, dataAt |-> R.pos, size |-> -1]
    ELSE frameResult(L, ReadFull(R, L.size), R)

\* the checksum read: its error ends the call
frameSum(L, sum) ==
    IF sum.err # Nil
    THEN [r |-> [sum.r EXCEPT !.err = sum.err], f |-> <<>>, err |-> sum.err,
          fault |-> Nil, hdrErr |-> IF L.hdrErr # Nil THEN L.hdrErr ELSE sum.err,
          dataAt |-> -1, size |-> L.size]
    ELSE frameData(L, sum.r)

\* "if flags&flagChecksum > 0 { io.ReadFull(d.r, sum[:]) }"
frameChecksum(L) ==
    IF HasFlag(L.flags, flagChecksum) THEN frameSum(L, ReadFull(L.r, 4))
    ELSE frameData(L, L.r)

\* (d *Demuxer) readFrame: [r, f, err, fault, hdrErr, dataAt, size]; R is d.r with
\* d.err, h is d.mainHeader; dataAt and size are history: where the read of the
\* payload started (-1: it did not) and the size computed
readFrame(R, code, h) ==
    IF R.err # Nil
    THEN [r |-> R, f |-> <<>>, err |-> R.err, fault |-> Nil, hdrErr |-> Nil,
          dataAt |-> -1, size |-> 0]
    ELSE IF h = <<>>
    THEN [r |-> R, f |-> <<>>, err |-> Nil, fault |-> "nil pointer dereference",
          hdrErr |-> Nil, dataAt |-> -1, size |-> 0]
    ELSE frameChecksum(frameHeaderErr(frameReserved(frameSize(frameFields(frameFlags(
             frameCodedFlags(frameLocals(R, h[1].Frames[code]))))))))

----------------------------------------------------------------------------
(* The demuxer. *)

\* d.r, with d.err e, at position at
rawReader(at, e) ==
    [pos |-> at, N |-> 0, b |-> 0, err |-> e, buffered |-> FALSE, starved |-> FALSE]

\* &rawPacket{r: bufio.NewReader(io.LimitReader(d.r, int64(header.packetSize)))}
newRawPacket(at, size) ==
    [pos |-> at, N |-> size, b |-> 0, err |-> Nil, buffered |-> TRUE, starved |-> FALSE]

fileHeaderResult(rd) == [r |-> rd.r, err |-> IF rd.err # Nil THEN ErrFileID ELSE Nil]

\* a readFileHeader that reads nothing
readFileHeaderNothing(R) == [r |-> R, err |-> Nil]

\* (d *Demuxer) readFileHeader: [r, err]
readFileHeader(R) == fileHeaderResult(ReadFull(R, Len(fileID)))

\* readPacketHeader once the 4 checksum bytes have been asked for
packetChecksum(code, size, sum) ==
    IF sum.err # Nil
    THEN [r |-> [sum.r EXCEPT !.err = sum.err], code |-> code, size |-> size.x,
          err |-> sum.err]
    ELSE [r |-> sum.r, code |-> code, size |-> size.x, err |-> sum.r.err]

\* readPacketHeader once the size has been asked for: "if header.packetSize > 4096"
packetSize(code, size) ==
    IF size.err # Nil
    THEN [r |-> [size.r EXCEPT !.err = size.err], code |-> code, size |-> size.x,
          err |-> size.err]
    ELSE IF size.x > ChecksumThreshold THEN packetChecksum(code, size, ReadFull(size.r, 4))
    ELSE [r |-> size.r, code |-> code, size |-> size.x, err |-> size.r.err]

\* readPacketHeader once the 7 bytes after the marker have been asked for; code is
\* <<>> when they were not all there
packetCode(rest, code) ==
    IF rest.err # Nil
    THEN [r |-> [rest.r EXCEPT !.err = rest.err], code |-> <<>>, size |-> 0,
          err |-> rest.err]
    ELSE packetSize(code, readUvarint(rest.r))

\* (d *Demuxer) readPacketHeader, the marker byte just read: [r, code, size, err]
readPacketHeader(R) == packetCode(ReadFull(R, 7), <<Marker>> \o Taken(R, 7))

KnownStartCodes ==
    {mainStartCode, streamStartCode, syncpointStartCode, indexStartCode, infoStartCode}

\* a loop that does not look at d.err
errIsSetIgnored(e) == FALSE

\* "if d.err != nil" at the head of ReadEvent's loop
errIsSet(e) == e # Nil

\* a main-header case that does not look at d.mainHeader
mainHeaderIsSetIgnored(h) == FALSE

\* "if d.mainHeader != nil" of the main-header case
mainHeaderIsSet(h) == h # <<>>

\* A call in progress is D: d's fields r (with err) and mainHeader, and the call's
\* history: packets (the packets handed to a decoder, session wide), stores,
\* and note, what the call has met so far (idBytes: the bytes readFileHeader took;
\* look: where the call's first lookahead byte was asked for; frameDataAt and
\* frameSize: where the read of a frame's payload started, and its size).
noNote ==
    [mainErr |-> Nil, mainEnd |-> 0, dupMain |-> FALSE, unknownCode |-> FALSE,
     frameHdrErr |-> Nil, frameCode |-> -1, frameDataAt |-> -1, frameSize |-> 0,
     idBytes |-> 0, look |-> -1]

\* the ways a call ends
returnError(D, e) ==
    [kind |-> "error", event |-> <<>>, err |-> e, fault |-> Nil, d |-> [D EXCEPT !.r.err = e]]
returnEvent(D, ev) ==
    [kind |-> "event", event |-> <<ev>>, err |-> Nil, fault |-> Nil, d |-> D]
noReturn(D, fault) ==
    [kind |-> "fault", event |-> <<>>, err |-> Nil, fault |-> fault, d |-> D]

\* D after a packet decoder that left the packet's reader as P
afterPacket(D, name, hdr, P) ==
    [D EXCEPT !.r.pos = P.pos,
              !.packets = Append(@, [code |-> name, size |-> hdr.size,
                                     start |-> hdr.r.pos, end |-> P.pos,
                                     used |-> (P.pos - P.b) - hdr.r.pos,
                                     err |-> P.err, starved |-> P.starved])]

startStreamEvent(h) ==
    [type |-> "StartStream",
     as |-> IF h.streamClass = VideoClass THEN "videoStream"
            ELSE IF h.streamClass = AudioClass THEN "audioStream" ELSE "streamHeader",
     streamID |-> h.streamID, header |-> <<h>>, frame |-> <<>>]

frameEvent(f) ==
    [type |-> "Frame", as |-> "frame", streamID |-> f.streamID, header |-> <<>>,
     frame |-> <<f>>]

RECURSIVE eventLoop(_)

\* "d.mainHeader, err = p.readMainHeader()": m is the decoder's result; its err is
\* assigned and not looked at, and the loop goes on
mainCase(D, hdr, m) ==
    IF m.fault # Nil THEN noReturn([D EXCEPT !.r.pos = m.r.pos], m.fault)
    ELSE eventLoop([afterPacket(D, "main", hdr, m.r) EXCEPT
                        !.mainHeader = m.h, !.stores = @ + 1,
                        !.note.mainErr = IF @ = Nil THEN m.err ELSE @,
                        !.note.mainEnd = IF D.note.mainErr = Nil THEN m.r.pos ELSE @])

\* "case mainStartCode:"
mainStart(D, hdr, P) ==
    IF mainHeaderIsSet(D.mainHeader) THEN returnError(D, ErrSecondMain)
    ELSE mainCase(D, hdr, readMainHeader(P))

\* "case streamStartCode:", s the decoder's result
streamCase(D, hdr, s) ==
    IF s.err # Nil THEN returnError(afterPacket(D, "stream", hdr, s.r), s.err)
    ELSE returnEvent(afterPacket(D, "stream", hdr, s.r), startStreamEvent(s.h[1]))

\* "case infoStartCode:", "case syncpointStartCode:", "case indexStartCode:", x
\* the decoder's result
silentCase(D, name, hdr, x) ==
    IF x.fault # Nil THEN noReturn(D, x.fault)
    ELSE IF x.err # Nil THEN returnError(afterPacket(D, name, hdr, x.r), x.err)
    ELSE eventLoop(afterPacket(D, name, hdr, x.r))

\* "switch header.code", P the packet's reader
packetCase(D, hdr, P) ==
    IF hdr.code = mainStartCode
    THEN mainStart([D EXCEPT !.note.dupMain = D.mainHeader # <<>>], hdr, P)
    ELSE IF hdr.code = streamStartCode THEN streamCase(D, hdr, readStreamHeader(P))
    ELSE IF hdr.code = infoStartCode THEN silentCase(D, "info", hdr, readInfoPacket(P))
    ELSE IF hdr.code = syncpointStartCode
    THEN silentCase(D, "syncpoint", hdr, readSyncPoint(P))
    ELSE IF hdr.code = indexStartCode THEN silentCase(D, "index", hdr, readIndex(P))
    ELSE returnError(D, ErrUnknownStartCode)

\* "if nextByte[0] == 'N'", hdr the packet header read
packet(D, hdr) ==
    IF hdr.err # Nil THEN returnError(D, hdr.err)
    ELSE packetCase(D, hdr, newRawPacket(hdr.r.pos, hdr.size))

\* the else branch: f is the result of d.readFrame(nextByte[0], d.mainHeader)
frameCase(D, f) ==
    IF f.fault # Nil THEN noReturn(D, f.fault)
    ELSE IF f.err # Nil THEN returnError(D, f.err)
    ELSE returnEvent(D, frameEvent(f.f[1]))

frameNote(D, code, f) ==
    frameCase([D EXCEPT !.r = f.r, !.note.frameHdrErr = f.hdrErr,
                        !.note.frameCode = code, !.note.frameDataAt = f.dataAt,
                        !.note.frameSize = f.size], f)

packetNote(D, hdr) ==
    packet([D EXCEPT !.r = hdr.r,
                     !.note.unknownCode =
                         hdr.code # <<>> /\ hdr.code \notin KnownStartCodes], hdr)

\* the lookahead byte asked for: next is its ReadFull
lookahead(D, next, byte) ==
    IF next.err # Nil THEN returnError([D EXCEPT !.r = next.r], next.err)
    ELSE IF byte = Marker THEN packetNote(D, readPacketHeader(next.r))
    ELSE frameNote(D, byte, readFrame(next.r, byte, D.mainHeader))

lookAt(D) == [D EXCEPT !.note.look = IF @ < 0 THEN D.r.pos ELSE @]

\* the loop of ReadEvent
eventLoop(D) ==
    IF errIsSet(D.r.err) THEN returnError(D, D.r.err)
    ELSE lookahead(lookAt(D), ReadFull(D.r, 1), NextByte(D.r))

\* "d.readHeaderOnce.Do(func() { if err := d.readFileHeader(); err != nil { d.err = err } })"
headerOnce(fh) == IF fh.err # Nil THEN [fh.r EXCEPT !.err = fh.err] ELSE fh.r

----------------------------------------------------------------------------
(* The state machine. *)

\* how many bytes one Read of the source may deliver: one, or all bufio asks for
ChunkSizes == {1, BufSize}

SeqsUpTo(S, n) == UNION {[1..k -> S] : k \in 0..n}

Sources ==
    {<<"shortID">>} \cup {<<"fileID">> \o s : s \in SeqsUpTo(UnitNames, MaxUnits)}

\* no decoder is called on its own
noCall == [op |-> "", size |-> 0, out |-> <<>>]

noResult ==
    [kind |-> "none", event |-> <<>>, err |-> Nil, fault |-> Nil, note |-> noNote]

Init ==
    /\ units \in Sources
    /\ chunk \in ChunkSizes
    /\ pos = 0
    /\ once = FALSE
    /\ err = Nil
    /\ mainHeader = <<>>
    /\ result = noResult
    /\ events = <<>>
    /\ packets = <<>>
    /\ stores = 0
    /\ errCalls = 0
    /\ dataCalls = <<>>
    /\ input = Stream(units)
    /\ decoded = noCall

\* one call of (d *Demuxer) ReadEvent. A call that faulted or never returns is
\* the session's last.
ReadEvent ==
    /\ result.kind # "fault"
    /\ result.kind = "error" => errCalls < MaxErrCalls
    /\ \E r0 \in {IF once THEN rawReader(pos, err)
                   ELSE headerOnce(readFileHeader(rawReader(pos, err)))} :
       \E out \in {eventLoop([r |-> r0, mainHeader |-> mainHeader, packets |-> packets,
                               stores |-> stores,
                               note |-> [noNote EXCEPT !.idBytes = r0.pos - pos]])} :
           /\ pos' = out.d.r.pos
           /\ err' = out.d.r.err
           /\ mainHeader' = out.d.mainHeader
           /\ packets' = out.d.packets
           /\ stores' = out.d.stores
           /\ result' = [kind |-> out.kind, event |-> out.event, err |-> out.err,
                         fault |-> out.fault, note |-> out.d.note]
           /\ events' = events \o out.event
    /\ once' = TRUE
    /\ errCalls' = IF result.kind = "error" THEN errCalls + 1 ELSE errCalls
    /\ UNCHANGED <<units, chunk, dataCalls, input, decoded>>

Next == ReadEvent

Spec == Init /\ [][Next]_vars

\* a Data that does not look at f.dataAccessed
dataAccessedIgnored(f) == FALSE

\* "if f.dataAccessed"
dataAccessed(f) == f.dataAccessed

\* what (f *frame) Data returns: <<>> is nil, <<data>> is bytes.NewReader(data)
dataReader(f) == IF dataAccessed(f) THEN <<>> ELSE <<f.data>>

\* one call of (f *frame) Data on the frame of the k-th event returned
Data(k) ==
    /\ Len(dataCalls) < MaxDataCalls
    /\ events[k].type = "Frame"
    /\ dataCalls' = Append(dataCalls, [frame |-> k, ret |-> dataReader(events[k].frame[1])])
    /\ events' = [events EXCEPT ![k].frame[1].dataAccessed = TRUE]
    /\ UNCHANGED <<units, chunk, pos, once, err, mainHeader, result, packets, stores,
                   errCalls, input, decoded>>

\* A session and its consumer: the sources are a main header and frames, and the
\* consumer calls Data on the frames it has been given, at any time. The main
\* header is "main" or one whose slot 0 has a size multiplier of 2^24.
FrameSources ==
    {<<"fileID", m>> \o s : m \in {"main", "mainWide"},
                              s \in SeqsUpTo(FrameUnitNames, MaxFrameUnits)}

ConsumerInit ==
    /\ units \in FrameSources
    /\ chunk \in ChunkSizes
    /\ pos = 0
    /\ once = FALSE
    /\ err = Nil
    /\ mainHeader = <<>>
    /\ result = noResult
    /\ events = <<>>
    /\ packets = <<>>
    /\ stores = 0
    /\ errCalls = 0
    /\ dataCalls = <<>>
    /\ input = Stream(units)
    /\ decoded = noCall

ConsumerNext ==
    \/ ReadEvent
    \/ \E k \in 1..Len(events) : Data(k)

ConsumerSpec == ConsumerInit /\ [][ConsumerNext]_vars

----------------------------------------------------------------------------
(* A session of stream headers: the file id, then stream-header packets of  *)
(* several encoded classes.                                                  *)

StreamSources ==
    {<<"fileID">> \o s : s \in SeqsUpTo(StreamUnitNames, MaxStreamUnits)}

StreamInit ==
    /\ units \in StreamSources
    /\ chunk \in ChunkSizes
    /\ pos = 0
    /\ once = FALSE
    /\ err = Nil
    /\ mainHeader = <<>>
    /\ result = noResult
    /\ events = <<>>
    /\ packets = <<>>
    /\ stores = 0
    /\ errCalls = 0
    /\ dataCalls = <<>>
    /\ input = Stream(units)
    /\ decoded = noCall

StreamSpec == StreamInit /\ [][Next]_vars

----------------------------------------------------------------------------
(* The decoders called on their own, each on bytes drawn from a bounded set. *)

\* the bytes of the varints read: both ends of each half of a byte's range
VarintBytes == {0, 1, 127, 128, 129, 255}

\* leading bytes 0x80 carry no bits, so that 9 and more bytes keep the value small
VarintInputs ==
    {[i \in 1..k |-> 128] \o t : k \in 0..MaxLead, t \in SeqsUpTo(VarintBytes, MaxTail)}

\* an unsigned varint of one or two bytes
Uvarint(n) == IF n < 128 THEN <<n>> ELSE <<128 + (n \div 128), n % 128>>

\* A frame-table record of n fields with flags, base size and run length as given;
\* the other fields differ from record to record (they follow n).
Record(flags, n, size, count) ==
    Uvarint(flags) \o <<n>>
    \o SubSeq(<<n + 1, n + 2, n + 3, size, 2>> \o Uvarint(count) \o <<n + 5, n + 6, 11, 12>>,
              1, IF n <= 5 THEN n ELSE n + Len(Uvarint(count)) - 1)

\* records of 0 to 10 fields; runs that end before, at and after slot 0x4E and at,
\* before and after the table's end; a base size above the size multiplier
Records ==
    {Record(flagKey, 0, 0, 0), Record(flagCodedPts, 1, 0, 0), Record(flagCodedPts, 2, 0, 0),
     Record(flagSizeMSB, 3, 0, 0), Record(flagKey, 4, 1, 0), Record(flagKey, 4, 9, 0),
     Record(flagCodedPts, 5, 1, 0), Record(flagSizeMSB, 9, 1, 255)}
    \cup {Record(flagKey, 6, 1, c) : c \in {0, 78, 177, 255, 256}}
    \cup {Record(flagSizeMSB, 7, 1, c) : c \in {77, 178}}
    \cup {Record(flagKey, 8, 1, c) : c \in {78, 255}}
    \cup {Record(flagCodedPts, 10, 1, c) : c \in {78, 177}}

RECURSIVE Concat(_)
Concat(ss) == IF ss = <<>> THEN <<>> ELSE Head(ss) \o Concat(Tail(ss))

\* main-header payloads: version 3, no stream, no time base; the records; no elision
\* header, flags 0
MainInputs ==
    {<<3, 0, 0, 0>> \o Concat(rs) \o <<0, 0>> : rs \in SeqsUpTo(Records, MaxRecords)}

\* the flags that gate a field of the frame header, in the order of the fields
Gates ==
    <<flagStreamID, flagCodedPts, flagSizeMSB, flagMatchTime, flagHeaderIdx, flagReserved,
      flagChecksum>>

AllGates ==
    flagStreamID + flagCodedPts + flagSizeMSB + flagMatchTime + flagHeaderIdx
    + flagReserved + flagChecksum

\* A main header whose table is: slot 0 with the coded-flags bit alone, slot 1 with
\* it and every gate, slot 2 with stream id and size msb and no coded flags, the
\* other slots with the key flag; defaults that are not 0.
GatePayload ==
    <<3, 0, 0, 0>>
    \o Record(flagCoded, 8, 1, 1) \o Record(flagCoded + AllGates, 8, 1, 1)
    \o Record(flagStreamID + flagSizeMSB, 8, 1, 1) \o Record(flagKey, 8, 1, 252)
    \o <<0, 0>>

RECURSIVE SumOf(_)
SumOf(fs) == IF fs = {} THEN 0 ELSE (CHOOSE f \in fs : TRUE) + SumOf(fs \ {CHOOSE f \in fs : TRUE})

\* the coded flags of a frame: every combination of the gates
Overrides == {SumOf(fs) : fs \in SUBSET {Gates[g] : g \in 1..Len(Gates)}}

\* the bytes after a frame's flags: 2, 3, 1, 2, 3, 1, ...
FrameBody == [i \in 1..MaxFrameBody |-> (i % 3) + 1]

\* the main header, then one frame: with code 0 or 1 and coded flags, or with code
\* 2 or 3 and none
FrameInputs ==
    {GatePayload \o <<code>> \o Uvarint(o) \o FrameBody : code \in {0, 1}, o \in Overrides}
    \cup {GatePayload \o <<code>> \o FrameBody : code \in {2, 3}}

\* the side-data entries: one for each value of the discriminator t the decoder
\* tells apart (-1, -2, -3, -4, below -4) and three that are not negative
SideKinds == {"utf8", "generic", "int", "time", "rational5", "rational6", "zero", "plain"}

\* an entry's bytes: the length-prefixed name, the signed varint t (the bytes 2,
\* 4, 6, 8, 10, 12 are -1 ... -6, the bytes 0 and 3 are 0 and 2), the value
SideBytes(k) ==
    CASE k = "utf8"      -> <<1, 97>> \o <<2>> \o <<2, 104, 105>>
      [] k = "generic"   -> <<1, 98>> \o <<4>> \o <<1, 116>> \o <<2, 1, 2>>
      [] k = "int"       -> <<1, 99>> \o <<6>> \o <<10>>
      [] k = "time"      -> <<1, 100>> \o <<8>> \o <<129, 0>>
      [] k = "rational5" -> <<1, 101>> \o <<10>> \o <<5>>
      [] k = "rational6" -> <<2, 101, 102>> \o <<12>> \o <<8>>
      [] k = "zero"      -> <<1, 103>> \o <<0>>
      [] k = "plain"     -> <<0>> \o <<3>>

SideBlock(es) == Concat([i \in 1..Len(es) |-> SideBytes(es[i])])

\* side-data blocks: a count of 0 .. MaxSideEntries + 1 and up to MaxSideEntries
\* entries, as many as the count says, fewer or more; and one block whose count
\* is 2^45
SideInputs ==
    {<<n>> \o SideBlock(es) : n \in 0..(MaxSideEntries + 1),
                              es \in SeqsUpTo(SideKinds, MaxSideEntries)}
    \cup {<<136, 128, 128, 128, 128, 128, 0>> \o SideBlock(<<"utf8">>)}

DecoderInit ==
    /\ units = <<>>
    /\ chunk \in ChunkSizes
    /\ pos = 0
    /\ once = FALSE
    /\ err = Nil
    /\ mainHeader = <<>>
    /\ result = noResult
    /\ events = <<>>
    /\ packets = <<>>
    /\ stores = 0
    /\ errCalls = 0
    /\ dataCalls = <<>>
    /\ \/ /\ input \in VarintInputs
          /\ decoded \in {[op |-> op, size |-> 0, out |-> <<>>] :
                              op \in {"readUvarint", "readVarint"}}
       \/ /\ input \in MainInputs
          /\ decoded = [op |-> "readMainHeader", size |-> Len(input), out |-> <<>>]
       \/ /\ input \in FrameInputs
          /\ decoded = [op |-> "readFrame", size |-> Len(GatePayload), out |-> <<>>]
       \/ /\ input \in SideInputs
          /\ decoded = [op |-> "readSideData", size |-> Len(input), out |-> <<>>]

\* what a decoder leaves unchanged when it is called on its own
DecoderFrame ==
    UNCHANGED <<units, chunk, once, err, result, events, packets, stores, errCalls,
                dataCalls, input>>

\* readUvarint(r), r a reader at the start of the input
DecodeUvarint ==
    /\ decoded.op = "readUvarint"
    /\ decoded.out = <<>>
    /\ decoded' = [decoded EXCEPT !.out = <<readUvarint(rawReader(0, Nil))>>]
    /\ UNCHANGED <<pos, mainHeader>>
    /\ DecoderFrame

\* readVarint(r)
DecodeVarint ==
    /\ decoded.op = "readVarint"
    /\ decoded.out = <<>>
    /\ decoded' = [decoded EXCEPT !.out = <<readVarint(rawReader(0, Nil))>>]
    /\ UNCHANGED <<pos, mainHeader>>
    /\ DecoderFrame

\* "d.mainHeader, err = p.readMainHeader()", p the packet that starts the input
DecodeMainHeader ==
    /\ decoded.op \in {"readMainHeader", "readFrame"}
    /\ decoded.out = <<>>
    /\ mainHeader = <<>>
    /\ pos = 0
    /\ \E m \in {readMainHeader(newRawPacket(0, decoded.size))} :
           /\ decoded' = IF decoded.op = "readMainHeader"
                         THEN [decoded EXCEPT !.out = <<m>>] ELSE decoded
           /\ mainHeader' = m.h
           /\ pos' = m.r.pos
    /\ DecoderFrame

\* "d.readFrame(nextByte[0], d.mainHeader)", nextByte the byte after the main
\* header's packet
DecodeFrame ==
    /\ decoded.op = "readFrame"
    /\ decoded.out = <<>>
    /\ mainHeader # <<>>
    /\ \E f \in {readFrame(rawReader(pos + 1, Nil), Src[pos + 1], mainHeader)} :
           /\ decoded' = [decoded EXCEPT !.out = <<f>>]
           /\ pos' = f.r.pos
    /\ UNCHANGED mainHeader
    /\ DecoderFrame

\* "i.metaData = p.readSideData()", p a packet that holds the input
DecodeSideData ==
    /\ decoded.op = "readSideData"
    /\ decoded.out = <<>>
    /\ decoded' = [decoded EXCEPT !.out = <<readSideData(newRawPacket(0, decoded.size))>>]
    /\ UNCHANGED <<pos, mainHeader>>
    /\ DecoderFrame

DecoderNext ==
    \/ DecodeUvarint
    \/ DecodeVarint
    \/ DecodeMainHeader
    \/ DecodeFrame
    \/ DecodeSideData

DecoderSpec == DecoderInit /\ [][DecoderNext]_vars

----------------------------------------------------------------------------
(* Properties. *)

\* C1: once a ReadEvent call has returned an error, every later call returns no
\* event and the same error, and consumes no byte of the source.
ErrorIsSticky ==
    [][result.kind = "error" =>
          /\ result'.kind = "error"
          /\ result'.err = result.err
          /\ result'.event = <<>>
          /\ pos' = pos]_vars

\* a call was made after a call had returned an error, and has returned
ErrorIsStickyWitness == errCalls >= 1 /\ result.kind = "error"

\* A well-formed stream: the file id, one main header, then stream headers, info
\* packets, sync points, index packets and frames.
WellFormed ==
    /\ Len(units) >= 2
    /\ units[1] = "fileID"
    /\ units[2] \in {"main", "mainT"}
    /\ \A k \in 3..Len(units) : units[k] \in {"video", "info", "syncBig", "index", "frame1"}

\* the events a well-formed stream holds, in stream order
RECURSIVE ExpectedEvents(_)
ExpectedEvents(us) ==
    IF us = <<>> THEN <<>>
    ELSE (IF Head(us) = "video" THEN <<[type |-> "StartStream", width |-> 100,
                                        height |-> 100, data |-> <<>>]>>
          ELSE IF Head(us) = "frame1" THEN <<[type |-> "Frame", width |-> 0, height |-> 0,
                                              data |-> <<170, 187>>]>>
          ELSE <<>>)
         \o ExpectedEvents(Tail(us))

EventIs(ev, want) ==
    /\ ev.type = want.type
    /\ want.type = "StartStream" =>
          /\ ev.as = "videoStream"
          /\ ev.header[1].videoStreamHeader[1].width = want.width
          /\ ev.header[1].videoStreamHeader[1].height = want.height
    /\ want.type = "Frame" => ev.frame[1].data = want.data

\* C2: on a well-formed stream the calls return, in stream order, one StartStream
\* per stream header (with the encoded width and height) and one Frame per frame
\* (with exactly its payload), and nothing else: the events returned are always
\* the first of the expected ones, and all of them once a call reports the end.
EventOrder ==
    WellFormed =>
        /\ result.kind # "fault"
        /\ Len(events) <= Len(ExpectedEvents(units))
        /\ \A k \in 1..Len(events) : EventIs(events[k], ExpectedEvents(units)[k])
        /\ result.kind = "error" => Len(events) = Len(ExpectedEvents(units))

\* C3: every ReadEvent call returns, whatever the source holds.
ReadEventReturns == result.fault # "never returns"

\* C4: a byte is routed to the frame decoder only in a session that holds a main
\* header, and the call ends in an event or an error, not in a fault.
FrameDecodeHasMainHeader ==
    result.note.frameCode >= 0 =>
        /\ mainHeader # <<>>
        /\ result.kind \in {"event", "error"}

\* C5: a read failure inside a main-header packet ends the call with an error,
\* and nothing after the point of failure is consumed.
MainReadFailureIsTerminal ==
    result.note.mainErr # Nil =>
        /\ result.kind = "error"
        /\ pos = result.note.mainEnd

\* C6: after a packet of declared size s whose payload is all in the source, the
\* next byte looked at is the one after the s payload bytes.
PacketResync ==
    \A k \in 1..Len(packets) :
        (packets[k].err = Nil /\ packets[k].start + packets[k].size <= Len(Src))
            => packets[k].end = packets[k].start + packets[k].size

\* C7: a packet decoder never takes more from the source than the s bytes after
\* the packet header, and a decoder that wants more gets a read failure.
NoOverRead ==
    \A k \in 1..Len(packets) :
        /\ packets[k].end <= packets[k].start + packets[k].size
        /\ packets[k].starved => packets[k].err # Nil

\* a decoder wanted more than its packet held while the source had more
NoOverReadWitness ==
    \E k \in 1..Len(packets) :
        /\ packets[k].starved
        /\ packets[k].end = packets[k].start + packets[k].size
        /\ packets[k].end < Len(Src)

\* C8: d.mainHeader is assigned at most once and a stored header is never changed;
\* a main-header packet met while a header is stored ends the call with the
\* duplicate-main-header error and no event.
AtMostOneMainHeader ==
    [][/\ stores' <= 1
       /\ (stores' = 0) <=> (mainHeader' = <<>>)
       /\ mainHeader # <<>> => mainHeader' = mainHeader
       /\ result'.note.dupMain =>
             /\ result'.kind = "error"
             /\ result'.err = ErrSecondMain
             /\ result'.event = <<>>]_vars

\* a second main-header packet was met
AtMostOneMainHeaderWitness == result.note.dupMain /\ stores = 1

\* C9: a failed read of a frame's header fields ends the call with an error, not
\* a Frame.
FrameHeaderFailureGivesNoFrame ==
    result.note.frameHdrErr # Nil => result.kind = "error"

\* C10: a unit whose 8-byte start code is none of the five known ones ends the
\* call with the unknown-start-code error, whatever follows the code.
UnknownStartCodeIsReported ==
    result.note.unknownCode =>
        /\ result.kind = "error"
        /\ result.err = ErrUnknownStartCode
        /\ result.event = <<>>

\* C11: of the Data calls on one Frame the first returns a reader over the frame's
\* whole payload and every later one returns nil, whatever calls were made on the
\* other Frames.
PayloadSingleUse ==
    \A c \in 1..Len(dataCalls) :
        dataCalls[c].ret =
            IF \E b \in 1..(c - 1) : dataCalls[b].frame = dataCalls[c].frame
            THEN <<>>
            ELSE <<events[dataCalls[c].frame].frame[1].data>>

\* a Frame was asked twice for its payload, and then another Frame for its own
PayloadSingleUseWitness ==
    /\ Len(dataCalls) = 3
    /\ dataCalls[1].frame = dataCalls[2].frame
    /\ dataCalls[3].frame # dataCalls[1].frame
    /\ dataCalls[3].ret = <<<<204, 221, 238>>>>

\* the first byte of bs, from index i on, whose high bit is 0; 0 when there is none
RECURSIVE Terminator(_, _)
Terminator(bs, i) ==
    IF i > Len(bs) THEN 0 ELSE IF bs[i] < 128 THEN i ELSE Terminator(bs, i + 1)

\* the low 7 bits of the bytes bs, most significant first
RECURSIVE SevenBitValue(_)
SevenBitValue(bs) ==
    IF bs = <<>> THEN 0
    ELSE SevenBitValue(SubSeq(bs, 1, Len(bs) - 1)) * 128 + (bs[Len(bs)] % 128)

\* what the claim says readUvarint does on the bytes bs, t the first terminator
UvarintOf(bs, t) ==
    IF t \in 1..MaxVarintBytes
    THEN [consumed |-> t, x |-> <<SevenBitValue(SubSeq(bs, 1, t))>>, err |-> Nil]
    ELSE IF Len(bs) >= MaxVarintBytes
    THEN [consumed |-> MaxVarintBytes, x |-> <<>>, err |-> ErrOverflow]
    ELSE [consumed |-> Len(bs), x |-> <<>>, err |-> EOF]

UvarintAsClaimed(out, want) ==
    /\ out.r.pos = want.consumed
    /\ out.err = want.err
    /\ want.x # <<>> => out.x = want.x[1]

\* C12: readUvarint consumes the bytes up to and including the first one whose high
\* bit is 0, at most 9, and no later byte; its value is the 7-bit groups of the
\* consumed bytes, most significant first; it fails with the overflow error exactly
\* when 9 bytes with the high bit set were consumed, and with the source's end of
\* file when the source ends before that.
UvarintDecoding ==
    (decoded.op = "readUvarint" /\ decoded.out # <<>>) =>
        UvarintAsClaimed(decoded.out[1], UvarintOf(input, Terminator(input, 1)))

\* a varint of several bytes was read and bytes after it were left
UvarintDecodingWitness ==
    /\ decoded.op = "readUvarint"
    /\ decoded.out # <<>>
    /\ decoded.out[1].err = Nil
    /\ decoded.out[1].r.pos = 2
    /\ decoded.out[1].x = 127 * 128 + 1
    /\ Len(input) > 2

\* the bits of n
RECURSIVE BitLen(_)
BitLen(n) == IF n = 0 THEN 0 ELSE 1 + BitLen(n \div 2)

\* the unsigned value a signed varint v stands for
UnsignedOf(v) == IF v > 0 THEN 2 * v - 1 ELSE -2 * v

\* readVarint's result out against readUvarint's result u on the same bytes
VarintAsClaimed(out, u, bs) ==
    /\ u.err = Nil =>
          /\ out.err = Nil
          /\ out.r.pos = u.r.pos
          /\ (u.x + 1) % 2 = 1 => out.x = -((u.x + 1) \div 2)
          /\ (u.x + 1) % 2 = 0 => out.x = (u.x + 1) \div 2
          /\ UnsignedOf(out.x) = u.x
          /\ u.r.pos <= MaxVarintBytes
          /\ BitLen(u.x) <= 7 * u.r.pos
    /\ (Len(bs) >= 1 /\ bs[1] = 1) => out.x = 1
    /\ (Len(bs) >= 2 /\ bs[1] = 129 /\ bs[2] = 0) => out.x = -64
    /\ (Len(bs) >= 2 /\ bs[1] = 129 /\ bs[2] = 1) => out.x = 65

\* C13: where readUvarint returns n, readVarint consumes the same bytes and returns,
\* with u = n + 1, -(u >> 1) for odd u and u >> 1 for even u; n has at most 63 bits,
\* so n + 1 does not wrap; n is recovered from the result, so distinct n give
\* distinct results; [0x01], [0x81,0x00], [0x81,0x01] decode to 1, -64, 65.
VarintDecoding ==
    (decoded.op = "readVarint" /\ decoded.out # <<>>) =>
        VarintAsClaimed(decoded.out[1], readUvarint(rawReader(0, Nil)), input)

\* the bytes 0x81 0x00 were read as -64 and a byte after them was left
VarintDecodingWitness ==
    /\ decoded.op = "readVarint"
    /\ decoded.out # <<>>
    /\ decoded.out[1].x = -64
    /\ decoded.out[1].r.pos = 2
    /\ Len(input) = 3

\* what a call does with a file-identification tag of n bytes: the first call of a
\* session, and no later one, consumes the tag and looks at the byte after it; a
\* source that ends inside the tag gives an error, and that call looks at no byte
FileIDOfLength(n) ==
    /\ result'.note.idBytes = IF once THEN 0 ELSE Min(n, Len(Src))
    /\ (~once /\ Len(Src) >= n) => result'.note.look = n
    /\ (~once /\ Len(Src) < n) =>
          /\ result'.kind = "error"
          /\ result'.err = ErrFileID
          /\ err' = ErrFileID
          /\ result'.note.look = -1
    /\ once => result'.note.look \in {-1, pos}

\* C14: the first ReadEvent call of a session, and no later call, consumes the
\* file-identification tag, which is exactly 25 bytes long, before it reads the
\* first unit's lookahead byte; a source that ends inside the tag gives a terminal
\* error.
FileIDReadOnce == [][FileIDOfLength(Len(fileID))]_vars

\* a later call: it took no tag and looked at a unit after the tag
FileIDReadOnceWitness ==
    /\ once
    /\ result.kind = "event"
    /\ result.note.idBytes = 0
    /\ result.note.look > Len(fileID)

\* C14 as stated: the tag is exactly 8 bytes long
FileIDIs8Bytes == [][FileIDOfLength(8)]_vars

\* a main header read on its own has returned
MainDecoded == decoded.op = "readMainHeader" /\ decoded.out # <<>>

\* C15: after every main-header decode that completes the frame table has exactly
\* 256 entries and entry 0x4E has the flags flagInvalid and no other, whatever the
\* records hold.
MarkerSlotInvalid ==
    (MainDecoded /\ decoded.out[1].fault = Nil) =>
        /\ DOMAIN decoded.out[1].h[1].Frames = 0..(TableSize - 1)
        /\ decoded.out[1].h[1].Frames[Marker].flags = flagInvalid

\* a table was completed by a run that ended right before slot 0x4E and a run that
\* started at it
MarkerSlotInvalidWitness ==
    /\ MainDecoded
    /\ decoded.out[1].fault = Nil
    /\ decoded.out[1].err = Nil
    /\ Len(decoded.out[1].runs) = 2
    /\ decoded.out[1].runs[2].start = Marker

\* the slot that gets unit k of a run that starts at slot s: slot 0x4E takes none
SlotOf(s, k) == s + k + (IF s <= Marker /\ s + k >= Marker THEN 1 ELSE 0)

\* the slot after a run of c units that starts at slot s
RunEnd(s, c) == IF c = 0 THEN s ELSE SlotOf(s, c - 1) + 1

\* the table entry e is unit k of the run
IsUnitOf(e, run, k) ==
    /\ e.flags = run.flags
    /\ e.streamID = run.c.stream
    /\ e.mul = run.c.mul
    /\ e.ptsDelta = run.c.pts
    /\ e.reservedCount = run.res
    /\ e.matchTimeDelta = run.c.match
    /\ e.headerIdx = run.c.headIdx
    /\ e.lsb = run.size + k

RunsExpand(runs, frames) ==
    /\ \A n \in 1..Len(runs) :
          /\ runs[n].start =
                 IF n = 1 THEN 0 ELSE RunEnd(runs[n - 1].start, runs[n - 1].count)
          /\ \A k \in 0..(runs[n].count - 1) :
                 IsUnitOf(frames[SlotOf(runs[n].start, k)], runs[n], k)
    /\ RunEnd(runs[Len(runs)].start, runs[Len(runs)].count) = TableSize
    /\ runs[1].count = TableSize - 1 => Len(runs) = 1

\* C16: in a completed table a record with run length c that starts at slot s has
\* assigned the next c slots other than 0x4E, unit k of them with the record's
\* fields and base size + k; slot 0x4E takes no unit of c and the next record
\* starts where the run ended; a record with c = 255 at slot 0 is the only one.
RunExpansion ==
    (MainDecoded /\ decoded.out[1].fault = Nil) =>
        RunsExpand(decoded.out[1].runs, decoded.out[1].h[1].Frames)

\* one record with c = 255 has filled the table
RunExpansionWitness ==
    /\ MainDecoded
    /\ decoded.out[1].fault = Nil
    /\ decoded.out[1].err = Nil
    /\ decoded.out[1].runs[1].count = 255
    /\ decoded.out[1].h[1].Frames[255].lsb = decoded.out[1].runs[1].size + 254
    /\ decoded.out[1].h[1].Frames[Marker - 1].lsb = decoded.out[1].runs[1].size + 77
    /\ decoded.out[1].h[1].Frames[Marker + 1].lsb = decoded.out[1].runs[1].size + 78

\* C17: frame-table construction reads and writes no slot outside 0..255, whatever
\* the records hold.
TableInBounds == MainDecoded => decoded.out[1].fault # "index out of range"

\* the unsigned varints that the bytes bs hold from index i on, each with the index
\* of its last byte
RECURSIVE VarintsFrom(_, _)
RECURSIVE VarintUpTo(_, _, _)
VarintsFrom(bs, i) ==
    IF i > Len(bs) THEN <<>> ELSE VarintUpTo(bs, i, Terminator(bs, i))

VarintUpTo(bs, i, t) ==
    IF t = 0 THEN <<>>
    ELSE <<[x |-> SevenBitValue(SubSeq(bs, i, t)), end |-> t]>> \o VarintsFrom(bs, t + 1)

\* the signed value of the unsigned varint n
SignedValue(n) == IF (n + 1) % 2 = 1 THEN -((n + 1) \div 2) ELSE (n + 1) \div 2

\* field f of a record of n fields whose flags are varint p of V
Field(V, p, n, f, omitted) == IF n >= f THEN V[p + 1 + f].x ELSE omitted

\* what the claim says a record is: its flags are varint p of V, n its field count,
\* prev the record before it
RecordAsClaimed(V, p, n, prev) ==
    [flags |-> V[p].x,
     pts |-> IF n >= 1 THEN SignedValue(V[p + 2].x) ELSE prev.pts,
     mul |-> Field(V, p, n, 2, prev.mul),
     stream |-> Field(V, p, n, 3, prev.stream),
     size |-> Field(V, p, n, 4, 0),
     res |-> Field(V, p, n, 5, 0),
     count |-> Field(V, p, n, 6, Field(V, p, n, 2, prev.mul) - Field(V, p, n, 4, 0)),
     match |-> IF n >= 7 THEN I64(SignedValue(V[p + 8].x)) ELSE prev.match,
     headIdx |-> Field(V, p, n, 8, prev.headIdx),
     from |-> V[p - 1].end,
     to |-> V[p + 1 + n].end,
     next |-> p + 2 + n]

\* the record read is the record claimed
IsRecord(run, rec) ==
    /\ run.from = rec.from
    /\ run.to = rec.to
    /\ run.flags = rec.flags
    /\ run.size = rec.size
    /\ run.res = rec.res
    /\ run.count = rec.count
    /\ run.c = [pts |-> rec.pts, mul |-> rec.mul, stream |-> rec.stream,
                match |-> rec.match, headIdx |-> rec.headIdx]

\* the records read from the k-th on are the records claimed, rec the k-th of them
RECURSIVE RecordsAsClaimed(_, _, _, _)
RecordsAsClaimed(runs, k, V, rec) ==
    /\ IsRecord(runs[k], rec)
    /\ k < Len(runs) =>
          RecordsAsClaimed(runs, k + 1, V,
                           RecordAsClaimed(V, rec.next, V[rec.next + 1].x, rec))

\* the records of a main header whose first four varints are the version, the
\* stream count, the max distance and a time-base count of 0
TableAsClaimed(runs, V) ==
    RecordsAsClaimed(runs, 1, V,
                     RecordAsClaimed(V, 5, V[6].x,
                                     [pts |-> 0, mul |-> 1, stream |-> 0,
                                      match |-> matchUnset, headIdx |-> 0]))

\* C18: a record of n fields reads flags, n, the first min(n, 8) of ptsDelta,
\* sizeMultiplier, defaultStreamId, baseSize, reservedCount, runLength,
\* matchTimeDelta, headerIndex in that order, and n - 8 more varints that it drops;
\* an omitted ptsDelta, sizeMultiplier, defaultStreamId, matchTimeDelta or
\* headerIndex is that of the record before (at first 0, 1, 0, 1 - 2^62, 0), an
\* omitted baseSize or reservedCount is 0, an omitted runLength is
\* sizeMultiplier - baseSize.
RecordDefaults ==
    (MainDecoded /\ decoded.out[1].err = Nil) =>
        TableAsClaimed(decoded.out[1].runs, VarintsFrom(input, 1))

\* a record of 4 fields was read after a record of 8 fields
RecordDefaultsWitness ==
    /\ MainDecoded
    /\ decoded.out[1].err = Nil
    /\ Len(decoded.out[1].runs) = 2
    /\ decoded.out[1].runs[1].to - decoded.out[1].runs[1].from = 10
    /\ decoded.out[1].runs[2].to - decoded.out[1].runs[2].from = 6
    /\ decoded.out[1].runs[2].c.headIdx = decoded.out[1].runs[1].c.headIdx
    /\ decoded.out[1].runs[2].c.headIdx # 0
    /\ decoded.out[1].runs[2].c.match # matchUnset
    /\ decoded.out[1].runs[2].res = 0

\* a frame read on its own has returned
FrameDecoded == decoded.op = "readFrame" /\ decoded.out # <<>>

\* the code of the frame read on its own, and the varints after it
FrameCode == input[decoded.size + 1]
FrameVarints == VarintsFrom(input, decoded.size + 2)

\* the first g - 1 gates that are set in the flags eff
RECURSIVE GatesBefore(_, _)
GatesBefore(eff, g) ==
    IF g <= 1 THEN 0
    ELSE GatesBefore(eff, g - 1) + (IF HasFlag(eff, Gates[g - 1]) THEN 1 ELSE 0)

\* the field of gate g as the claim has it: read after the fields of the gates
\* before it iff its bit is set in eff, the first field being varint first of V
Gated(V, eff, first, g, omitted) ==
    IF HasFlag(eff, Gates[g]) THEN V[first + GatesBefore(eff, g)].x ELSE omitted

\* the bytes of the input that precede the frame's payload: the varints up to the
\* last of the n read, and the checksum
HeaderEnd(V, eff, n) ==
    (IF n = 0 THEN decoded.size + 1 ELSE V[n].end)
    + (IF HasFlag(eff, flagChecksum) THEN 4 ELSE 0)

\* the frame f, read up to the byte at, is the frame claimed for the table entry
\* meta, the effective flags eff and the first field at varint first of V
FrameAsClaimed(f, at, meta, V, eff, first) ==
    /\ f.streamID = Gated(V, eff, first, 1, meta.streamID)
    /\ f.codedPTS = Gated(V, eff, first, 2, 0)
    /\ f.dataSizeMsb = Gated(V, eff, first, 3, 0)
    /\ f.matchTimeDelta =
          IF HasFlag(eff, flagMatchTime)
          THEN I64(SignedValue(Gated(V, eff, first, 4, 0))) ELSE meta.matchTimeDelta
    /\ f.headerIdx = Gated(V, eff, first, 5, meta.headerIdx)
    /\ f.res = Gated(V, eff, first, 6, 0)
    /\ at - Len(f.data) =
          HeaderEnd(V, eff, first - 1 + GatesBefore(eff, 7) + Gated(V, eff, first, 6, 0))

\* the effective flags: the entry's, XORed with the coded flags iff the entry's
\* have the coded-flags bit
FrameGated(f, at, meta, V) ==
    IF HasFlag(meta.flags, flagCoded)
    THEN FrameAsClaimed(f, at, meta, V, Xor(meta.flags, V[1].x), 2)
    ELSE FrameAsClaimed(f, at, meta, V, meta.flags, 1)

\* C19: the effective flags of a frame are its table entry's flags, XORed with
\* coded flags that are read first iff the entry's flags have the coded-flags bit;
\* stream id, coded PTS, size msb, match-time delta, header index, reserved count
\* and that many dropped varints, and a 4-byte checksum are then read in this
\* order, each iff its bit is set in the effective flags; a field that is not read
\* is the entry's (stream id, match-time delta, header index) or 0.
FrameHeaderGating ==
    (FrameDecoded /\ decoded.out[1].err = Nil) =>
        FrameGated(decoded.out[1].f[1], decoded.out[1].r.pos,
                   mainHeader[1].Frames[FrameCode], FrameVarints)

\* coded flags turned the stream id of an entry with every gate off, and kept the
\* reserved count and the checksum
FrameHeaderGatingWitness ==
    /\ FrameDecoded
    /\ decoded.out[1].err = Nil
    /\ FrameCode = 1
    /\ FrameVarints[1].x = flagStreamID + flagSizeMSB
    /\ decoded.out[1].f[1].streamID = mainHeader[1].Frames[1].streamID
    /\ decoded.out[1].f[1].codedPTS = 2
    /\ decoded.out[1].f[1].res = 2

\* the call read a frame's header fields without a failure, in a session that
\* holds a main header
FrameHeaderRead ==
    /\ result.note.frameCode >= 0
    /\ result.note.frameHdrErr = Nil
    /\ mainHeader # <<>>

\* the source holds the whole payload of the frame the call read
PayloadInSource ==
    /\ result.kind # "fault"
    /\ result.note.frameDataAt + result.note.frameSize <= Len(Src)

\* the call returned the frame with the n bytes after its header fields, and the
\* session is at the byte after them
FrameWithPayload(n) ==
    /\ result.kind = "event"
    /\ result.event[1].type = "Frame"
    /\ n = result.note.frameSize
    /\ result.event[1].frame[1].data =
          SubSeq(Src, result.note.frameDataAt + 1, result.note.frameDataAt + n)
    /\ pos = result.note.frameDataAt + n

\* what a call that read a frame's header has done: meta is the frame's table entry
PayloadOf(meta) ==
    IF PayloadInSource
    THEN FrameWithPayload(meta.lsb + meta.mul * result.event[1].frame[1].dataSizeMsb)
    ELSE /\ result.kind = "error"
         /\ result.event = <<>>
         /\ err # Nil

\* C20: the payload of a Frame is the baseSize + sizeMultiplier * sizeMSB bytes
\* after the frame's header fields, ReadEvent consumes exactly those, and a source
\* that ends before the payload is complete gives an error and no Frame.
FramePayload ==
    FrameHeaderRead => PayloadOf(mainHeader[1].Frames[result.note.frameCode])

\* the call returned a StartStream event, read from the last packet decoded
StreamReturned ==
    /\ result.kind = "event"
    /\ result.event[1].type = "StartStream"
    /\ packets # <<>>
    /\ packets[Len(packets)].code = "stream"

\* the class a stream header encodes: the unsigned varint after the one-byte
\* stream id, at is where the payload starts and t where the varint ends
EncodedClass(at, t) == [x |-> SevenBitValue(SubSeq(Src, at + 2, t)), end |-> t - at]

\* the fields of the sub-header that goes with the class value x
SubHeaderFields(x) == IF x = VideoClass THEN 5 ELSE IF x = AudioClass THEN 3 ELSE 0

\* the decoder took the common fields, which end 9 bytes after the class, and n
\* one-byte fields more, and the event has the sub-header of the class value x
SubHeaderOf(p, h, cls, x) ==
    /\ p.used = cls.end + 9 + SubHeaderFields(x)
    /\ (h.videoStreamHeader # <<>>) <=> (x = VideoClass)
    /\ (h.auditStreamHeader # <<>>) <=> (x = AudioClass)
    /\ h.videoStreamHeader # <<>> =>
           h.videoStreamHeader[1] = [width |-> 100, height |-> 101, sampleWidth |-> 102,
                                     sampleHeight |-> 103, colorSpaceType |-> 104]
    /\ h.auditStreamHeader # <<>> =>
           h.auditStreamHeader[1] = [sampleRateNum |-> 100, sampleRateDenom |-> 101,
                                     channelCount |-> 102]

SubHeaderAsEncoded(p, h, cls) == SubHeaderOf(p, h, cls, cls.x)

\* C21: the stream-header decoder reads the five video fields iff the encoded class
\* value is 0 and the three audio fields iff it is 1; for every other encoded value,
\* those above 255 too, it reads no sub-header and the StartStream event carries
\* none.
StreamSubHeader ==
    StreamReturned =>
        SubHeaderAsEncoded(packets[Len(packets)], result.event[1].header[1],
                           EncodedClass(packets[Len(packets)].start,
                                        Terminator(Src, packets[Len(packets)].start + 2)))

\* the side-data decoder was called and returned or panicked
SideDecoded == decoded.op = "readSideData" /\ decoded.out # <<>>

\* The reading of an entry's bytes: the name, the discriminator t, and the value
\* that goes with t. es is the entries that follow, at the byte after at.
\* the length-prefixed block that starts after byte at
BlockAt(at) == SubSeq(Src, at + 2, at + 1 + Src[at + 1])
\* the byte after that block
AfterBlock(at) == at + 1 + Src[at + 1]
\* the unsigned and the signed varint that start after byte at
UnsignedAt(at) == SevenBitValue(SubSeq(Src, at + 1, Terminator(Src, at + 1)))
SignedAt(at) == SignedValue(UnsignedAt(at))
AfterVarint(at) == Terminator(Src, at + 1)

\* the entry whose name and discriminator are read and whose value starts after
\* byte at, and the last byte of the entry
EntryOf(name, t, at) ==
    CASE t = -1 -> [e |-> sideEntry("sideUTF8", name, <<>>, BlockAt(at), 0, 0),
                    end |-> AfterBlock(at)]
      [] t = -2 -> [e |-> sideEntry("sideGeneric", name, BlockAt(at),
                                    BlockAt(AfterBlock(at)), 0, 0),
                    end |-> AfterBlock(AfterBlock(at))]
      [] t = -3 -> [e |-> sideEntry("sideInt64", name, <<>>, SignedAt(at), 0, 0),
                    end |-> AfterVarint(at)]
      [] t = -4 -> [e |-> sideEntry("sideTime", name, <<>>, UnsignedAt(at), 0, 0),
                    end |-> AfterVarint(at)]
      [] t < -4 -> [e |-> sideEntry("sideRational", name, <<>>, 0, -t - 4, SignedAt(at)),
                    end |-> AfterVarint(at)]
      [] OTHER  -> [e |-> sideEntry("sideUint64", name, <<>>, 0, 0, 0), end |-> at]

\* the entry that starts after byte at
EntryAt(at) == EntryOf(BlockAt(at), SignedAt(AfterBlock(at)), AfterVarint(AfterBlock(at)))

\* n entries from the byte after at: [es, end]
RECURSIVE EntriesFrom(_, _)
EntriesAppend(rest, e) == [es |-> Append(rest.es, e.e), end |-> e.end]
EntriesNext(rest) == EntriesAppend(rest, EntryAt(rest.end))
EntriesFrom(at, n) ==
    IF n = 0 THEN [es |-> <<>>, end |-> at] ELSE EntriesNext(EntriesFrom(at, n - 1))

\* the decoder returned the entries want.es, in order, and read up to their end
SideReturned(out, want) ==
    /\ out.fault = Nil
    /\ out.r.err = Nil
    /\ out.v = want.es
    /\ out.r.pos - out.r.b = want.end

\* the count of a block that encodes it in one byte, else 0
SmallCount == IF Src[1] < 128 THEN Src[1] ELSE 0

\* the block holds at least as many entries as its one-byte count says
WholeEntries ==
    \E es \in [1..SmallCount -> SideKinds] :
        /\ Len(input) >= 1 + Len(SideBlock(es))
        /\ SubSeq(input, 1, 1 + Len(SideBlock(es))) = <<SmallCount>> \o SideBlock(es)

\* the decoder returned, and as many entries as the one-byte count says
CountReturned(out) ==
    /\ out.fault = Nil
    /\ Src[1] < 128 => Len(out.v) = Src[1]

SideDataOf(out) ==
    /\ CountReturned(out)
    /\ WholeEntries => SideReturned(out, EntriesFrom(1, SmallCount))

\* C22: the side-data decoder reads an entry count and returns exactly that many
\* entries in order; each entry reads a length-prefixed name and a signed
\* discriminator t, then one block for t = -1 (UTF8 text), two blocks for t = -2
\* (inner type, raw value), one signed varint for t = -3, one unsigned varint for
\* t = -4 (time), one signed varint for t < -4 (the numerator, the denominator
\* being -t - 4), and nothing for t >= 0 (an entry with a name and no value).
SideDataVariants == SideDecoded => SideDataOf(decoded.out[1])

====
